---- MODULE Spec2Model ----
(***************************************************************************)
(* Model of the mysql_gembed component (src/mysql_gembed.cc): the two      *)
(* UDFs GENERATE_EMBEDDING and GENERATE_EMBEDDINGS, their init/deinit      *)
(* hooks, the JSON string-array parser and the JSON batch encoder.         *)
(*                                                                         *)
(* Three specifications share the module:                                  *)
(*   SpecParse  parse_json_string_array applied to bounded inputs          *)
(*   SpecEnc    the JSON output loop of generate_embeddings                *)
(*   Spec       one UDF context: init, calls, deinit                       *)
(***************************************************************************)
EXTENDS Integers, Sequences, FiniteSets, TLC

VARIABLES
    \* ---- SpecParse ----
    kind,       \* how the input text was built (valid / a malformed class)
    elems,      \* the raw contents of the strings the input text was built from
    json,       \* the input bytes handed to parse_json_string_array
    pr,         \* the parser's result, NotParsed before the call
    \* ---- SpecEnc ----
    batch,      \* the EmbeddingBatch handed to the JSON output loop
    enc,        \* the loop's result, NotEncoded before it ran
    \* ---- Spec ----
    udf,        \* the function the context serves: "none", "single", "batch"
    phase,      \* "fresh", "ready", "rejected", "closed", "crashed"
    initid,     \* the UDF_INIT fields the component writes
    heap,       \* the output buffers made by new char[]: heap[id] is buffer id
    ncalls,     \* calls made on the context
    last        \* what the last call did and returned, NoCall before any

parseVars == <<kind, elems, json, pr>>
encVars == <<batch, enc>>
udfVars == <<udf, phase, initid, heap, ncalls, last>>

vars == <<kind, elems, json, pr, batch, enc, udf, phase, initid, heap, ncalls, last>>

(***************************************************************************)
(* Bounds of the model.                                                    *)
(***************************************************************************)
\* free-choice elements at the head of a generated array
MaxVaried == 1
\* repeated filler elements after them (MaxVaried + MaxFill > 10: the list grows)
MaxFill == 10
\* calls on one context
MaxCalls == 3

(***************************************************************************)
(* Bytes.  A text is a sequence of one-character strings.                  *)
(***************************************************************************)
QUOTE  == "\""
BSLASH == "\\"
LBRACK == "["
RBRACK == "]"
COMMA  == ","

\* src/mysql_gembed.cc:212,222  the four whitespace bytes the parser skips
IsSpace(c) == c \in {" ", "\t", "\n", "\r"}

(***************************************************************************)
(* parse_json_string_array, src/mysql_gembed.cc:201-288.                   *)
(* Positions are 1-based: p <= Len(js) is the code's  p < end.             *)
(* live counts the allocations made and not yet deleted:                   *)
(*   arrays  the char*[] and size_t[] backing arrays                       *)
(*   copies  the str_copy buffers                                          *)
(***************************************************************************)
\* line 203
InitialCapacity == 10

\* lines 212 and 222: while (p < end && isspace(*p)) p++
RECURSIVE SkipSpace(_, _)
SkipSpace(js, p) ==
    IF p <= Len(js) /\ IsSpace(js[p]) THEN SkipSpace(js, p + 1) ELSE p

\* lines 244-250: the scan for the closing quote; str_len++ once per iteration
RECURSIVE ScanString(_, _, _)
ScanString(js, p, str_len) ==
    IF p <= Len(js) /\ js[p] # QUOTE
    THEN LET q == IF js[p] = BSLASH /\ p + 1 <= Len(js) THEN p + 1 ELSE p
         IN  ScanString(js, q + 1, str_len + 1)
    ELSE [p |-> p, str_len |-> str_len]

\* lines 233-236 and 253-256: the error path's deletes
ParseFailure(st) ==
    [rc |-> -1, strings |-> << >>, lengths |-> << >>, count |-> 0,
     live |-> [arrays |-> st.live.arrays - 2,
               copies |-> st.live.copies - st.count],
     growths |-> st.growths]

\* lines 284-287
ParseSuccess(st) ==
    [rc |-> 0, strings |-> st.strings, lengths |-> st.lengths,
     count |-> st.count, live |-> st.live, growths |-> st.growths]

\* lines 260-270: expand the arrays when full
Grow(st) ==
    IF st.count >= st.capacity
    THEN [st EXCEPT !.capacity = 2 * st.capacity,
                    !.live.arrays = (st.live.arrays + 2) - 2,
                    !.growths = st.growths + 1]
    ELSE st

\* lines 273-279: copy str_len bytes from str_start and store them
StoreString(js, st, str_start, str_len) ==
    [st EXCEPT !.strings = Append(st.strings,
                                  SubSeq(js, str_start, str_start + str_len - 1)),
               !.lengths = Append(st.lengths, str_len),
               !.count = st.count + 1,
               !.live.copies = st.live.copies + 1]

\* lines 220-282: the main loop
RECURSIVE ParseLoop(_, _)
ParseLoop(js, st) ==
    IF ~(st.p <= Len(js)) THEN ParseSuccess(st)
    ELSE
    LET p == SkipSpace(js, st.p) IN
    IF p > Len(js) THEN ParseSuccess(st)                           \* line 224
    ELSE IF js[p] = RBRACK THEN ParseSuccess(st)                   \* line 225
    ELSE IF js[p] = COMMA THEN ParseLoop(js, [st EXCEPT !.p = p + 1])  \* 226-229
    ELSE IF js[p] # QUOTE THEN ParseFailure(st)                    \* 232-237
    ELSE
    LET str_start == p + 1
        sc == ScanString(js, str_start, 0)
    IN  IF sc.p > Len(js) THEN ParseFailure(st)                    \* 252-257
        ELSE ParseLoop(js,
                 [StoreString(js, Grow(st), str_start, sc.str_len)
                     EXCEPT !.p = sc.p + 1])                       \* line 281

\* lines 201-218: allocate, skip whitespace, require '['
parse_json_string_array(js) ==
    LET st0 == [p |-> 1, count |-> 0, capacity |-> InitialCapacity,
                strings |-> << >>, lengths |-> << >>,
                live |-> [arrays |-> 2, copies |-> 0], growths |-> 0]
        p == SkipSpace(js, 1)
    IN  IF p > Len(js) \/ js[p] # LBRACK
        THEN ParseFailure(st0)
        ELSE ParseLoop(js, [st0 EXCEPT !.p = p + 1])

(***************************************************************************)
(* Floats.  A float is known by its IEEE-754 single-precision bytes (as    *)
(* memcpy sees them, little-endian host) and by its value in millionths    *)
(* (as "%.6f" prints it).                                                  *)
(***************************************************************************)
F_zero == [bits |-> <<0, 0, 0, 0>>,      micro |-> 0]
F_one  == [bits |-> <<0, 0, 128, 63>>,   micro |-> 1000000]
F_2_5  == [bits |-> <<0, 0, 32, 64>>,    micro |-> 2500000]
F_neg  == [bits |-> <<0, 16, 250, 196>>, micro |-> -2000500000]

Floats == {F_one, F_2_5, F_neg}

\* the flat float array of an EmbeddingBatch (src/mysql_gembed.h:33-38):
\* data[k] is head[k+1] while k < Len(head), and fill after that
DataAt(b, k) == IF k + 1 <= Len(b.data.head) THEN b.data.head[k + 1] ELSE b.data.fill

NoBatch == [n_vectors |-> 0, dim |-> 0, data |-> [head |-> << >>, fill |-> F_zero]]

Max(a, b) == IF a > b THEN a ELSE b
Min(a, b) == IF a < b THEN a ELSE b

(***************************************************************************)
(* The JSON output loop of generate_embeddings,                            *)
(* src/mysql_gembed.cc:360-392.                                            *)
(***************************************************************************)
\* line 361
json_capacity == 1024 * 1024
\* line 380: json_len > json_capacity - 1000
SafetyMargin == 1000

RECURSIVE DecimalDigits(_)
DecimalDigits(n) == IF n < 10 THEN 1 ELSE 1 + DecimalDigits(n \div 10)

\* the number of bytes snprintf("%.6f", f) produces: sign, integer digits,
\* the point and six decimals (lines 377-378)
Fmt6Len(f) ==
    LET a == IF f.micro < 0 THEN -f.micro ELSE f.micro
    IN  (IF f.micro < 0 THEN 1 ELSE 0) + DecimalDigits(a \div 1000000) + 1 + 6

\* json_len += snprintf(json_output + json_len, json_capacity - json_len, ..)
\* for a text of w bytes.  snprintf returns w whatever it wrote.  The size_t
\* json_capacity - json_len wraps around when json_len > json_capacity, and the
\* write then lands past the end of json_output; with size 0 nothing is
\* written; otherwise at most size-1 bytes and the terminating NUL are.
\* top is one past the highest offset written so far.
Snprintf(e, w) ==
    [e EXCEPT !.json_len = e.json_len + w,
              !.wrapped = e.wrapped \/ e.json_len > json_capacity,
              !.top = IF e.json_len > json_capacity THEN Max(e.top, e.json_len + w + 1)
                      ELSE IF e.json_len = json_capacity THEN e.top
                      ELSE Max(e.top,
                               e.json_len + Min(w, json_capacity - e.json_len - 1) + 1)]

\* line 380: the capacity test made after each number
OverMargin(json_len) == json_len > json_capacity - SafetyMargin

\* lines 374-386: one pass of the inner loop body, for number j of vector i
EncNumber(b, e, i, j) ==
    LET e1 == IF j > 0 THEN Snprintf(e, 1) ELSE e
        e2 == Snprintf(e1, Fmt6Len(DataAt(b, i * b.dim + j)))
    IN  IF OverMargin(e2.json_len) THEN [e2 EXCEPT !.too_large = TRUE] ELSE e2

\* line 373: for (j = lo; j < hi; j++), the body applied in index order; the
\* range is halved so that the evaluation depth stays logarithmic.  Once the
\* code has returned (too_large) no later pass runs.
RECURSIVE NumberLoop(_, _, _, _, _)
NumberLoop(b, e, i, lo, hi) ==
    IF e.too_large \/ lo >= hi THEN e
    ELSE IF hi = lo + 1 THEN EncNumber(b, e, i, lo)
    ELSE LET mid == (lo + hi) \div 2
         IN  NumberLoop(b, NumberLoop(b, e, i, lo, mid), i, mid, hi)

\* lines 368-389: one pass of the outer loop body, for vector i
EncVector(b, e, i) ==
    LET e1 == IF i > 0 THEN Snprintf(e, 1) ELSE e
        e2 == Snprintf(e1, 1)
        e3 == NumberLoop(b, e2, i, 0, b.dim)
    IN  IF e3.too_large THEN e3 ELSE Snprintf(e3, 1)

\* line 367: for (i = lo; i < hi; i++)
RECURSIVE VectorLoop(_, _, _, _)
VectorLoop(b, e, lo, hi) ==
    IF e.too_large \/ lo >= hi THEN e
    ELSE IF hi = lo + 1 THEN EncVector(b, e, lo)
    ELSE LET mid == (lo + hi) \div 2
         IN  VectorLoop(b, VectorLoop(b, e, lo, mid), mid, hi)

\* lines 361-392: "[", the vectors, "]"
EncodeJson(b) ==
    LET e0 == [json_len |-> 0, top |-> 0, wrapped |-> FALSE, too_large |-> FALSE]
        e1 == VectorLoop(b, Snprintf(e0, 1), 0, b.n_vectors)
    IN  IF e1.too_large THEN e1 ELSE Snprintf(e1, 1)

NotEncoded == [json_len |-> -1]

(***************************************************************************)
(* The engine, declared in src/mysql_gembed.h and linked from the Gembed   *)
(* library: a stub that knows one method and one model.  What generation   *)
(* returns is an input of the calls below.                                 *)
(***************************************************************************)
\* src/mysql_gembed.h:28
INPUT_TYPE_TEXT == 0

\* a char* argument: null, or pointing at bytes
NullArg == [null |-> TRUE, val |-> << >>]
Arg(v) == [null |-> FALSE, val |-> v]

\* src/mysql_gembed.h:65  a negative id for an unknown method
validate_embedding_method(method) == IF method = <<"t">> THEN 0 ELSE -1

\* src/mysql_gembed.h:68  a negative id for an unknown model
validate_embedding_model(method_id, model, input_type) ==
    IF method_id = 0 /\ model = <<"m">> /\ input_type = INPUT_TYPE_TEXT THEN 0 ELSE -1

(***************************************************************************)
(* Output buffers.  heap[id] records whether buffer id is live and how     *)
(* often delete[] was applied to it; 0 is nullptr.                         *)
(***************************************************************************)
\* new char[..]: the new buffer is Len(h) + 1
NewBuffer(h) == Append(h, [live |-> TRUE, frees |-> 0])

\* delete[] id
DeleteBuffer(h, id) == [h EXCEPT ![id] = [live |-> FALSE, frees |-> @.frees + 1]]

(***************************************************************************)
(* The init and deinit hooks, src/mysql_gembed.cc:74-103 and 173-199.      *)
(***************************************************************************)
\* the UDF_INIT the host hands to init; the component reads none of it
FreshInitid == [maybe_null |-> FALSE, max_length |-> 0, ptr |-> 0]

\* lines 75-86 and 174-185: exactly three arguments, all STRING_RESULT
ArgsAccepted(arg_type) ==
    /\ Len(arg_type) = 3
    /\ arg_type[1] = "STRING_RESULT"
    /\ arg_type[2] = "STRING_RESULT"
    /\ arg_type[3] = "STRING_RESULT"

\* lines 74-96: returns true (rc) on a mismatch and leaves initid alone
generate_embedding_init(ctx, arg_type) ==
    IF ~ArgsAccepted(arg_type)
    THEN [rc |-> TRUE, initid |-> ctx]
    ELSE [rc |-> FALSE,
          initid |-> [maybe_null |-> TRUE, max_length |-> 65535, ptr |-> 0]]

\* lines 173-192
generate_embeddings_init(ctx, arg_type) ==
    IF ~ArgsAccepted(arg_type)
    THEN [rc |-> TRUE, initid |-> ctx]
    ELSE [rc |-> FALSE,
          initid |-> [maybe_null |-> TRUE, max_length |-> 1024 * 1024, ptr |-> 0]]

\* lines 98-103
generate_embedding_deinit(ctx, h) ==
    IF ctx.ptr # 0
    THEN [initid |-> [ctx EXCEPT !.ptr = 0], heap |-> DeleteBuffer(h, ctx.ptr)]
    ELSE [initid |-> ctx, heap |-> h]

\* lines 194-199
generate_embeddings_deinit(ctx, h) ==
    IF ctx.ptr # 0
    THEN [initid |-> [ctx EXCEPT !.ptr = 0], heap |-> DeleteBuffer(h, ctx.ptr)]
    ELSE [initid |-> ctx, heap |-> h]

(***************************************************************************)
(* What a call leaves behind, as the host and the allocator see it.        *)
(*   args                          the three arguments of the call         *)
(*   ret, length, is_null, error   the return value and the out-parameters *)
(*                                 (length -1: not written)                *)
(*   returned                      FALSE when the process died in the call *)
(*   calls                         engine functions called, by name        *)
(*   gen                           "none", "ok" (err = 0), "failed"        *)
(*   batch                         the batch generation populated          *)
(*   release_unpopulated           free_embedding_batch calls on a batch   *)
(*                                 generation never wrote                  *)
(*   leaked                        allocations of the call still live at   *)
(*                                 its end, output buffers apart (heap)    *)
(***************************************************************************)
NoLeak == [arrays |-> 0, copies |-> 0, inputs |-> 0, batch |-> 0]

CallStart(op, args, ctx, h) ==
    [op |-> op, args |-> args, returned |-> TRUE,
     ret |-> 0, length |-> -1, is_null |-> FALSE, error |-> FALSE, out |-> << >>,
     calls |-> [validate_method |-> 0, validate_model |-> 0, generate |-> 0, release |-> 0],
     gen |-> "none", batch |-> NoBatch, release_unpopulated |-> 0,
     leaked |-> NoLeak, entry_ptr |-> ctx.ptr, entry_heap |-> h]

NoCall == [op |-> "none"]

\* ArgsNull without the test of the third argument
ArgsNullFirstTwo(method, model, text) == method.null \/ model.null

\* lines 112 and 297: if (!method || !model || !text)
ArgsNull(method, model, text) == method.null \/ model.null \/ text.null

\* generate_embeddings_from_texts(.., &batch) returned g: with err = 0 the batch
\* is populated; with err # 0 the engine wrote nothing and batch is still the
\* uninitialized local of line 139 / 342
AfterGeneration(l, g) ==
    [l EXCEPT !.calls.generate = l.calls.generate + 1,
              !.gen = IF g.err = 0 THEN "ok" ELSE "failed",
              !.batch = IF g.err = 0 THEN g.batch ELSE NoBatch,
              !.leaked.batch = IF g.err = 0 THEN 1 ELSE 0]

\* free_embedding_batch(&batch), lines 143, 160, 354, 382, 394.  On a populated
\* batch it frees the data.  On the uninitialized local it reads an indeterminate
\* pointer: ub says whether that passes unnoticed or kills the process.
free_embedding_batch(l, ub) ==
    IF l.gen = "ok"
    THEN [l EXCEPT !.calls.release = l.calls.release + 1,
                   !.leaked.batch = l.leaked.batch - 1]
    ELSE [l EXCEPT !.calls.release = l.calls.release + 1,
                   !.release_unpopulated = l.release_unpopulated + 1,
                   !.returned = (ub = "benign")]

Returns(ctx, h, l) == [initid |-> ctx, heap |-> h, last |-> l]

(***************************************************************************)
(* generate_embedding, src/mysql_gembed.cc:105-170.                        *)
(***************************************************************************)
\* SingleRejected letting two or more vectors through
SingleRejectedOnlyEmpty(err, n_vectors) == err # 0 \/ n_vectors = 0

\* line 142: if (err != 0 || batch.n_vectors != 1)
SingleRejected(err, n_vectors) == err # 0 \/ n_vectors # 1

\* a uint32_t as its four bytes in memory
U32Bytes(n) ==
    << n % 256, (n \div 256) % 256, (n \div 65536) % 256, (n \div 16777216) % 256 >>

\* line 151: sizeof(uint32_t) + dim * sizeof(float)
VectorSize(b) == 4 + (b.dim * 4)

\* lines 152-158: the dimension, then memcpy of dim floats from batch.data
VectorBytes(b) ==
    U32Bytes(b.dim)
      \o [k \in 1..(b.dim * 4) |-> DataAt(b, (k - 1) \div 4).bits[((k - 1) % 4) + 1]]

\* StoreResult without the delete[] of the stored buffer
StoreResultNoDelete(ctx, h, buf) ==
    [initid |-> [ctx EXCEPT !.ptr = buf], heap |-> h]

\* lines 162-166: free the stored buffer, store the new one
StoreResult(ctx, h, buf) ==
    [initid |-> [ctx EXCEPT !.ptr = buf],
     heap |-> IF ctx.ptr # 0 THEN DeleteBuffer(h, ctx.ptr) ELSE h]

generate_embedding(ctx, h, method, model, text, g, ub) ==
    LET l0 == CallStart("single", <<method, model, text>>, ctx, h) IN
    IF ArgsNull(method, model, text)                                   \* 112-115
    THEN Returns(ctx, h, [l0 EXCEPT !.is_null = TRUE])
    ELSE
    LET method_id == validate_embedding_method(method.val)             \* 118
        l1 == [l0 EXCEPT !.calls.validate_method = 1]
    IN
    IF method_id < 0 THEN Returns(ctx, h, [l1 EXCEPT !.error = TRUE])  \* 119-123
    ELSE
    LET model_id == validate_embedding_model(method_id, model.val, INPUT_TYPE_TEXT)
        l2 == [l1 EXCEPT !.calls.validate_model = 1]
    IN
    IF model_id < 0 THEN Returns(ctx, h, [l2 EXCEPT !.error = TRUE])   \* 127-131
    ELSE
    LET l3 == AfterGeneration(l2, g) IN                                \* 139-140
    IF SingleRejected(g.err, l3.batch.n_vectors)                       \* 142-147
    THEN LET l4 == free_embedding_batch(l3, ub)
         IN  IF l4.returned THEN Returns(ctx, h, [l4 EXCEPT !.error = TRUE])
             ELSE Returns(ctx, h, l4)
    ELSE
    LET h1 == NewBuffer(h)                                             \* 152
        vector_data == Len(h1)
        l4 == free_embedding_batch([l3 EXCEPT !.out = VectorBytes(l3.batch)], ub)
        st == StoreResult(ctx, h1, vector_data)                        \* 163-166
    IN  Returns(st.initid, st.heap,
                [l4 EXCEPT !.length = VectorSize(l3.batch),            \* 167
                           !.ret = vector_data])                       \* 169

(***************************************************************************)
(* generate_embeddings, src/mysql_gembed.cc:290-404.                       *)
(***************************************************************************)
\* lines 396-400: free the stored buffer, store the new one
StoreJsonResult(ctx, h, buf) ==
    [initid |-> [ctx EXCEPT !.ptr = buf],
     heap |-> IF ctx.ptr # 0 THEN DeleteBuffer(h, ctx.ptr) ELSE h]

\* lines 345-351: delete every decoded string, the two arrays and inputs
CleanupInputs(l, n_strings) ==
    [l EXCEPT !.leaked.copies = l.leaked.copies - n_strings,
              !.leaked.arrays = l.leaked.arrays - 2,
              !.leaked.inputs = l.leaked.inputs - 1]

generate_embeddings(ctx, h, method, model, texts_json, g, ub, encoded) ==
    LET l0 == CallStart("batch", <<method, model, texts_json>>, ctx, h) IN
    IF ArgsNull(method, model, texts_json)                             \* 297-300
    THEN Returns(ctx, h, [l0 EXCEPT !.is_null = TRUE])
    ELSE
    LET method_id == validate_embedding_method(method.val)             \* 303
        l1 == [l0 EXCEPT !.calls.validate_method = 1]
    IN
    IF method_id < 0 THEN Returns(ctx, h, [l1 EXCEPT !.error = TRUE])  \* 304-308
    ELSE
    LET model_id == validate_embedding_model(method_id, model.val, INPUT_TYPE_TEXT)
        l2 == [l1 EXCEPT !.calls.validate_model = 1]
    IN
    IF model_id < 0 THEN Returns(ctx, h, [l2 EXCEPT !.error = TRUE])   \* 312-316
    ELSE
    LET parsed == parse_json_string_array(texts_json.val)              \* 323
        l3 == [l2 EXCEPT !.leaked.arrays = parsed.live.arrays,
                         !.leaked.copies = parsed.live.copies]
    IN
    IF parsed.rc # 0 THEN Returns(ctx, h, [l3 EXCEPT !.error = TRUE])  \* 323-327
    ELSE IF parsed.count = 0                                           \* 329-332
    THEN Returns(ctx, h, [l3 EXCEPT !.is_null = TRUE])
    ELSE
    LET l4 == [l3 EXCEPT !.leaked.inputs = 1]                          \* 335-339
        l5 == CleanupInputs(AfterGeneration(l4, g), parsed.count)      \* 342-351
    IN
    IF g.err # 0                                                       \* 353-358
    THEN LET l6 == free_embedding_batch(l5, ub)
         IN  IF l6.returned THEN Returns(ctx, h, [l6 EXCEPT !.error = TRUE])
             ELSE Returns(ctx, h, l6)
    ELSE
    LET h1 == NewBuffer(h)                                             \* 362
        json_output == Len(h1)
        e == encoded[l5.batch]                                         \* 365-392
    IN
    IF e.too_large                                                     \* 380-386
    THEN Returns(ctx, DeleteBuffer(h1, json_output),
                 [free_embedding_batch(l5, ub) EXCEPT !.error = TRUE])
    ELSE
    LET l6 == free_embedding_batch(l5, ub)                             \* 394
        st == StoreJsonResult(ctx, h1, json_output)                    \* 397-400
    IN  Returns(st.initid, st.heap,
                [l6 EXCEPT !.length = e.json_len,                      \* 401
                           !.ret = json_output])                       \* 403

UdfIdle ==
    /\ udf = "none" /\ phase = "fresh" /\ initid = FreshInitid
    /\ heap = << >> /\ ncalls = 0 /\ last = NoCall

(***************************************************************************)
(* Inputs of SpecEnc: batches as the engine may return them.               *)
(***************************************************************************)
\* vectors and dimensions of the enumerated small batches
MaxVectors == 2
MaxDim == 2

SmallHeads == { << >>, <<F_one>>, <<F_one, F_2_5>>, <<F_neg, F_one>> }

SmallBatches ==
    { [n_vectors |-> n, dim |-> d, data |-> [head |-> h, fill |-> f]] :
        n \in 0..MaxVectors, d \in 0..MaxDim, h \in SmallHeads, f \in Floats }

\* one vector whose document ends two bytes past the margin: after the last
\* number json_len is exactly json_capacity - 1000
FittingBatch ==
    [n_vectors |-> 1, dim |-> 80583, data |-> [head |-> <<F_one>>, fill |-> F_neg]]
\* one more number than FittingBatch
TooLargeBatch ==
    [n_vectors |-> 1, dim |-> 80584, data |-> [head |-> <<F_one>>, fill |-> F_neg]]
\* the margin is crossed in the second vector
TwoLargeVectors ==
    [n_vectors |-> 2, dim |-> 50000, data |-> [head |-> << >>, fill |-> F_neg]]
\* vectors of dimension 0: "[],[],..." with no number written
EmptyVectors ==
    [n_vectors |-> 349526, dim |-> 0, data |-> [head |-> << >>, fill |-> F_zero]]

EncBatches ==
    SmallBatches \cup {FittingBatch, TooLargeBatch, TwoLargeVectors, EmptyVectors}

InitEnc ==
    /\ batch \in EncBatches
    /\ enc = NotEncoded
    /\ kind = "none" /\ elems = << >> /\ json = << >> /\ pr = [rc |-> 1]
    /\ UdfIdle

\* the output loop run on the batch
Encode ==
    /\ enc = NotEncoded
    /\ enc' = EncodeJson(batch)
    /\ UNCHANGED <<batch, parseVars, udfVars>>

NextEnc == Encode

SpecEnc == InitEnc /\ [][NextEnc]_vars

(***************************************************************************)
(* Inputs of SpecParse: texts built from a list of raw string contents.    *)
(***************************************************************************)
\* raw bytes between the quotes: empty, plain, with escape pairs, with
\* structural bytes inside the string
Contents ==
    { << >>,
      <<"a">>,
      <<"a", BSLASH, QUOTE, "b">>,
      <<BSLASH, BSLASH>>,
      <<RBRACK, COMMA, LBRACK>> }

RECURSIVE Repeat(_, _)
Repeat(x, n) == IF n = 0 THEN << >> ELSE <<x>> \o Repeat(x, n - 1)

ElemLists ==
    { h \o Repeat(f, k) :
        h \in UNION { [1..n -> Contents] : n \in 0..MaxVaried },
        f \in Contents, k \in 0..MaxFill }

Quoted(c) == <<QUOTE>> \o c \o <<QUOTE>>

\* the elements joined by sep
RECURSIVE Join(_, _)
Join(es, sep) ==
    IF es = << >> THEN << >>
    ELSE IF Len(es) = 1 THEN Quoted(es[1])
    ELSE Quoted(es[1]) \o sep \o Join(Tail(es), sep)

\* layouts: compact, and with whitespace around every token
Layouts == { [lead |-> << >>, sep |-> <<COMMA>>, tail |-> << >>],
             [lead |-> <<" ", "\n">>, sep |-> <<"\t", COMMA, " ">>, tail |-> <<"\r">>] }

ArrayText(es, lay) ==
    lay.lead \o <<LBRACK>> \o lay.tail \o Join(es, lay.sep) \o lay.tail \o <<RBRACK>>

\* a bare token where a string is expected
BareTokens == { <<"1">>, <<"x">>, <<LBRACK>>, <<"n", "u", "l", "l">> }

ParseInputs ==
    \* a valid JSON array of strings
    { [kind |-> "valid", elems |-> es, json |-> ArrayText(es, lay)] :
        es \in ElemLists, lay \in Layouts }
    \cup
    \* the opening '[' is missing
    { [kind |-> "no_open", elems |-> es,
       json |-> lay.lead \o Join(es, lay.sep) \o <<RBRACK>>] :
        es \in ElemLists, lay \in Layouts }
    \cup
    \* the closing ']' is missing: the text ends after the last element
    { [kind |-> "no_close", elems |-> es,
       json |-> lay.lead \o <<LBRACK>> \o Join(es, lay.sep) \o lay.tail] :
        es \in ElemLists, lay \in Layouts }
    \cup
    \* the last string is never closed: the text ends inside it
    { [kind |-> "unterminated", elems |-> es,
       json |-> lay.lead \o <<LBRACK>> \o Join(es, lay.sep) \o lay.sep
                  \o <<QUOTE>> \o c] :
        es \in ElemLists, lay \in Layouts, c \in Contents \cup {<<"a", BSLASH>>} }
    \cup
    \* a bare token follows the elements
    { [kind |-> "non_string", elems |-> es,
       json |-> lay.lead \o <<LBRACK>> \o Join(es, lay.sep) \o lay.sep
                  \o t \o <<RBRACK>>] :
        es \in ElemLists, lay \in Layouts, t \in BareTokens }

NotParsed == [rc |-> 1]

InitParse ==
    /\ \E i \in ParseInputs :
          /\ kind = i.kind
          /\ elems = i.elems
          /\ json = i.json
    /\ pr = NotParsed
    /\ batch = NoBatch /\ enc = NotEncoded
    /\ UdfIdle

\* the call of parse_json_string_array on the input
Parse ==
    /\ pr = NotParsed
    /\ pr' = parse_json_string_array(json)
    /\ UNCHANGED <<kind, elems, json>>
    /\ UNCHANGED <<encVars, udfVars>>

NextParse == Parse

SpecParse == InitParse /\ [][NextParse]_vars

(***************************************************************************)
(* Spec: one UDF context from init to deinit.  The host picks the          *)
(* arguments; the engine picks what generation returns.                    *)
(***************************************************************************)
ArgTypes ==
    { <<"STRING_RESULT", "STRING_RESULT">>,
      <<"STRING_RESULT", "STRING_RESULT", "STRING_RESULT">>,
      <<"STRING_RESULT", "INT_RESULT", "STRING_RESULT">>,
      <<"STRING_RESULT", "STRING_RESULT", "STRING_RESULT", "STRING_RESULT">> }

Methods == { NullArg, Arg(<<"t">>), Arg(<<"x">>) }
Models  == { NullArg, Arg(<<"m">>), Arg(<<"x">>) }
Texts   == { NullArg, Arg(<<"h", "i">>) }

CompactLayout == [lead |-> << >>, sep |-> <<COMMA>>, tail |-> << >>]

JsonTexts ==
    { NullArg,
      Arg(ArrayText(<< >>, CompactLayout)),
      Arg(ArrayText(<< <<"a">> >>, CompactLayout)),
      Arg(ArrayText(<< <<"a">>, <<"a", BSLASH, QUOTE, "b">> >>, CompactLayout)),
      Arg(<<LBRACK, QUOTE, "a">>),
      Arg(<<LBRACK, "x", RBRACK>>) }

\* the batches generation may return in Spec; their documents stay inside
\* json_output (SpecEnc has the batch that overruns it)
EngineBatches ==
    { [n_vectors |-> n, dim |-> d, data |-> [head |-> <<F_one, F_2_5>>, fill |-> F_neg]] :
        n \in 0..MaxVectors, d \in 0..MaxDim }

\* what generate_embeddings_from_texts returns: an error code and no batch, or
\* 0 and a batch
Generations(batches) ==
    { [err |-> -1, batch |-> NoBatch] } \cup { [err |-> 0, batch |-> b] : b \in batches }

\* reading the uninitialized batch: unnoticed, or the process dies
UBOutcomes == { "benign", "crash" }

\* the JSON output loop on each batch Spec uses, evaluated once
EncodedBatches == [b \in EngineBatches \cup {TooLargeBatch} |-> EncodeJson(b)]

Init ==
    /\ UdfIdle
    /\ kind = "none" /\ elems = << >> /\ json = << >> /\ pr = NotParsed
    /\ batch = NoBatch /\ enc = NotEncoded

\* the host initialises the context for GENERATE_EMBEDDING
SingleInit ==
    /\ phase = "fresh"
    /\ \E at \in ArgTypes :
          LET r == generate_embedding_init(initid, at) IN
          /\ initid' = r.initid
          /\ phase' = IF r.rc THEN "rejected" ELSE "ready"
    /\ udf' = "single"
    /\ UNCHANGED <<heap, ncalls, last, parseVars, encVars>>

\* the host initialises the context for GENERATE_EMBEDDINGS
BatchInit ==
    /\ phase = "fresh"
    /\ \E at \in ArgTypes :
          LET r == generate_embeddings_init(initid, at) IN
          /\ initid' = r.initid
          /\ phase' = IF r.rc THEN "rejected" ELSE "ready"
    /\ udf' = "batch"
    /\ UNCHANGED <<heap, ncalls, last, parseVars, encVars>>

\* one row: a call of generate_embedding
SingleCall ==
    /\ phase = "ready" /\ udf = "single" /\ ncalls < MaxCalls
    /\ \E method \in Methods, model \in Models, text \in Texts,
          g \in Generations(EngineBatches), ub \in UBOutcomes :
          LET r == generate_embedding(initid, heap, method, model, text, g, ub) IN
          /\ initid' = r.initid
          /\ heap' = r.heap
          /\ last' = r.last
          /\ phase' = IF r.last.returned THEN "ready" ELSE "crashed"
    /\ ncalls' = ncalls + 1
    /\ UNCHANGED <<udf, parseVars, encVars>>

\* one row: a call of generate_embeddings
BatchCall ==
    /\ phase = "ready" /\ udf = "batch" /\ ncalls < MaxCalls
    /\ \E method \in Methods, model \in Models, texts_json \in JsonTexts,
          g \in Generations(EngineBatches \cup {TooLargeBatch}), ub \in UBOutcomes :
          LET r == generate_embeddings(initid, heap, method, model, texts_json,
                                       g, ub, EncodedBatches) IN
          /\ initid' = r.initid
          /\ heap' = r.heap
          /\ last' = r.last
          /\ phase' = IF r.last.returned THEN "ready" ELSE "crashed"
    /\ ncalls' = ncalls + 1
    /\ UNCHANGED <<udf, parseVars, encVars>>

\* the host tears the context down
SingleDeinit ==
    /\ phase = "ready" /\ udf = "single"
    /\ LET r == generate_embedding_deinit(initid, heap) IN
          initid' = r.initid /\ heap' = r.heap
    /\ phase' = "closed"
    /\ UNCHANGED <<udf, ncalls, last, parseVars, encVars>>

BatchDeinit ==
    /\ phase = "ready" /\ udf = "batch"
    /\ LET r == generate_embeddings_deinit(initid, heap) IN
          initid' = r.initid /\ heap' = r.heap
    /\ phase' = "closed"
    /\ UNCHANGED <<udf, ncalls, last, parseVars, encVars>>

Next ==
    \/ SingleInit
    \/ BatchInit
    \/ SingleCall
    \/ BatchCall
    \/ SingleDeinit
    \/ BatchDeinit

Spec == Init /\ [][Next]_vars

(***************************************************************************)
(* The claims.                                                             *)
(***************************************************************************)

\* C1 (SpecParse): for a valid JSON array of N strings the parser succeeds and
\* returns exactly N elements in order, each with the length and the bytes of
\* the raw content between its quotes, escape pairs included.
C1_RawBytesPreserved ==
    (pr # NotParsed /\ kind = "valid") =>
        /\ pr.rc = 0
        /\ pr.count = Len(elems)
        /\ Len(pr.strings) = Len(elems)
        /\ Len(pr.lengths) = Len(elems)
        /\ \A i \in 1..Len(elems) :
              pr.lengths[i] = Len(elems[i]) /\ pr.strings[i] = elems[i]

\* C2 (SpecParse): for an input with no opening '[', no closing ']', an
\* unterminated string or a non-string element the parser returns non-zero,
\* hands no element list to the caller and has released all it allocated.
C2_MalformedRejected ==
    (pr # NotParsed /\ kind \in {"no_open", "no_close", "unterminated", "non_string"}) =>
        /\ pr.rc # 0
        /\ pr.count = 0 /\ pr.strings = << >> /\ pr.lengths = << >>
        /\ pr.live.arrays = 0 /\ pr.live.copies = 0

\* C3 (Spec): when a call of generate_embeddings has returned, nothing it
\* allocated is live (decoded strings, the two arrays, inputs, the batch, an
\* output buffer that is not the result) except the buffer in initid->ptr.
C3_BatchCallReleasesAll ==
    (last.op = "batch" /\ last.returned /\ phase = "ready") =>
        /\ last.leaked = NoLeak
        /\ \A id \in 1..Len(heap) : heap[id].live => id = initid.ptr

\* C4 (Spec): at most one output buffer is live, and it is the one initid->ptr
\* refers to; every other buffer was deleted exactly once (so a call that stores
\* a result deleted the one before exactly once); after deinit initid->ptr is
\* null and every buffer was deleted exactly once.
C4_OneResultBuffer ==
    /\ \A id \in 1..Len(heap) :
          /\ heap[id].live <=> id = initid.ptr
          /\ heap[id].frees = (IF id = initid.ptr THEN 0 ELSE 1)
    /\ initid.ptr \in 0..Len(heap)
    /\ phase = "closed" =>
          /\ initid.ptr = 0
          /\ \A id \in 1..Len(heap) : ~heap[id].live /\ heap[id].frees = 1

\* C4 witness: the context was torn down after three calls, two of which stored
\* a result and one of which did not.
C4_Witness ==
    phase = "closed" /\ ncalls = 3 /\ Len(heap) = 2 /\ last.ret = 0

\* the length of the whole JSON document of a batch: every number, comma and
\* bracket
DocumentLength(b) ==
    LET numbers == b.n_vectors * b.dim
        fromHead == Min(numbers, Len(b.data.head))
        RECURSIVE HeadWidth(_)
        HeadWidth(k) == IF k = 0 THEN 0 ELSE Fmt6Len(b.data.head[k]) + HeadWidth(k - 1)
    IN  2 + (2 * b.n_vectors) + Max(b.n_vectors - 1, 0)
          + (b.n_vectors * Max(b.dim - 1, 0))
          + HeadWidth(fromHead) + ((numbers - fromHead) * Fmt6Len(b.data.fill))

\* C5 (SpecEnc): the encoder reports too-large for every batch whose whole
\* document is longer than json_capacity - 1000, and never returns a longer one.
C5_CapacityFailure ==
    enc # NotEncoded =>
        /\ DocumentLength(batch) > json_capacity - SafetyMargin => enc.too_large
        /\ ~enc.too_large => enc.json_len <= json_capacity - SafetyMargin

\* C6 (Spec): a call with a null argument returns null with is_null set and
\* error clear, calls no engine function and leaves initid->ptr and the
\* buffers as they were.
C6_NullArgument ==
    (last.op # "none" /\ \E i \in 1..3 : last.args[i].null) =>
        /\ last.returned
        /\ last.ret = 0 /\ last.is_null /\ ~last.error /\ last.length = -1
        /\ last.calls = [validate_method |-> 0, validate_model |-> 0,
                         generate |-> 0, release |-> 0]
        /\ phase = "ready" => initid.ptr = last.entry_ptr /\ heap = last.entry_heap

\* C6 witness: a call with only the third argument null, on a context that
\* holds a result.
C6_Witness ==
    /\ phase = "ready" /\ last.op # "none" /\ initid.ptr # 0
    /\ ~last.args[1].null /\ ~last.args[2].null /\ last.args[3].null

DecodeU32(bytes) ==
    bytes[1] + (256 * bytes[2]) + (65536 * bytes[3]) + (16777216 * bytes[4])

\* C7 (Spec): when generation succeeded in a single-text call, the call
\* returns an output iff the engine produced exactly one vector; the output is
\* 4 + 4*dim bytes, dim in the first four, then the dim floats in order; with
\* any other vector count the call sets error, returns null and stores no
\* buffer.
C7_SingleVector ==
    (last.op = "single" /\ last.gen = "ok") =>
        LET b == last.batch IN
        /\ last.returned
        /\ last.ret # 0 <=> b.n_vectors = 1
        /\ last.ret # 0 =>
              /\ ~last.error /\ ~last.is_null
              /\ last.length = 4 + (4 * b.dim)
              /\ Len(last.out) = last.length
              /\ DecodeU32(SubSeq(last.out, 1, 4)) = b.dim
              /\ \A k \in 0..(b.dim - 1) :
                    SubSeq(last.out, 5 + (4 * k), 8 + (4 * k)) = DataAt(b, k).bits
        /\ b.n_vectors # 1 =>
              /\ last.error /\ last.ret = 0 /\ last.length = -1
              /\ Len(heap) = Len(last.entry_heap)
              /\ phase = "ready" => initid.ptr = last.entry_ptr /\ heap = last.entry_heap

\* C7 witness: one vector of dimension 2 was returned as 12 bytes.
C7_Witness ==
    /\ last.op = "single" /\ last.gen = "ok"
    /\ last.batch.n_vectors = 1 /\ last.batch.dim = 2
    /\ last.ret # 0 /\ last.length = 12

\* C8 (Spec): every call ends in exactly one of Ok (result returned, length
\* set, no flag), Absent (null, is_null only) and Error (null, error only).
C8_ThreeOutcomes ==
    last.op # "none" =>
        LET Ok     == last.ret # 0 /\ last.length >= 0 /\ ~last.is_null /\ ~last.error
            Absent == last.ret = 0 /\ last.is_null /\ ~last.error
            Error  == last.ret = 0 /\ last.error /\ ~last.is_null
        IN  last.returned /\ (Ok \/ Absent \/ Error)

\* C9 (SpecEnc): while the encoder runs json_len never passes json_capacity
\* (json_capacity - json_len never wraps), no byte is written at or past the
\* end of json_output, and the length reported is at most json_capacity.
C9_WithinCapacity ==
    enc # NotEncoded =>
        /\ ~enc.wrapped
        /\ enc.top <= json_capacity
        /\ ~enc.too_large => enc.json_len <= json_capacity

\* C10 (Spec): free_embedding_batch is called exactly once on a batch that
\* generation populated, and never when generation failed or was not called.
C10_ReleaseOncePerBatch ==
    last.op # "none" =>
        /\ last.gen = "ok" => last.calls.release = 1 /\ last.leaked.batch = 0
        /\ last.gen # "ok" => last.calls.release = 0

====
